---- MODULE Spec2Model ----
(***************************************************************************)
(* Model of logisticmap.cpp: a LADSPA plugin that generates noise by       *)
(* iterating the logistic map  current' = r * current * (1 - current).     *)
(*                                                                         *)
(* LADSPA_Data (float) is modelled as a binary floating-point format with  *)
(* Precision significand bits, gradual underflow, round-to-nearest-even,   *)
(* overflow to infinity and NaN: IEEE-754 single precision with the        *)
(* significand and exponent range scaled down.  The C int and unsigned     *)
(* long of lmng_run are scaled-down two's-complement widths IntBits and    *)
(* LongBits.  Host memory is a flat array of LADSPA_Data cells; a port     *)
(* pointer is an address into it or NULL.                                  *)
(***************************************************************************)
EXTENDS Integers, Sequences, FiniteSets, TLC

(***************************************************************************)
(* Bounds of the model.                                                    *)
(***************************************************************************)
\* significand bits of the scaled-down float (24 in IEEE single)
Precision == 4
\* bits of the scaled-down C int (32 on the target)
IntBits == 3
\* instances the host may hold at once
MaxInstances == 2
\* largest sampleCount of the generation and closure specifications
MaxCount == 2
\* host calls per behaviour of the lifecycle specification
MaxCalls == 4
\* host calls per behaviour of the block specification
MaxBlockCalls == 3
\* host calls per behaviour of the generation specification
MaxGenCalls == 5
\* host calls per behaviour of the closure specification
MaxUnitCalls == 2

(***************************************************************************)
(* Program constants.                                                      *)
(***************************************************************************)
NULL == 0
PORT_R == 0
PORT_SEED == 1
PORT_OUT == 2
PORT_COUNT == 3

RECURSIVE Pow2(_)
Pow2(k) == IF k = 0 THEN 1 ELSE 2 * Pow2(k - 1)

Abs(x) == IF x < 0 THEN -x ELSE x

(***************************************************************************)
(* C integers of lmng_run: int i, unsigned long sampleCount.               *)
(***************************************************************************)
LongBits == 2 * IntBits
INT_MAX == Pow2(IntBits - 1) - 1
INT_MIN == -Pow2(IntBits - 1)

\* the usual arithmetic conversion of the int i in  i < sampleCount
ToULong(i) == i % Pow2(LongBits)

(***************************************************************************)
(* LADSPA_Data.  A finite value v stands for the real number v / Unit;     *)
(* representable magnitudes are m * 2^e with m < 2^Precision, e >= 0, up   *)
(* to MaxFinite.  The sign of zero is not tracked: the program only        *)
(* multiplies, subtracts and compares, and none of these gives a different *)
(* numeric result for -0.                                                  *)
(***************************************************************************)
FracBits == Precision + 2
Unit == Pow2(FracBits)
MaxFinite == (Pow2(Precision) - 1) * Pow2(FracBits)
PInf == 2 * MaxFinite
NInf == -PInf
NaN == PInf + 1

RECURSIVE Representable(_)
Representable(m) ==
    IF m < Pow2(Precision) THEN TRUE
    ELSE m % 2 = 0 /\ Representable(m \div 2)

Finite == {v \in -MaxFinite..MaxFinite : Representable(Abs(v))}
Data == Finite \cup {PInf, NInf, NaN}

IsNaN(a) == a = NaN
IsInf(a) == a = PInf \/ a = NInf
Sgn(a) == IF a < 0 THEN -1 ELSE IF a > 0 THEN 1 ELSE 0

\* float literals of the program
Zero == 0
One == Unit
Four == 4 * Unit

\* a variant: n / d rounded up
RoundUp(n, d) == IF n % d = 0 THEN n \div d ELSE (n \div d) + 1

\* n / d rounded to the nearest integer, ties to even
RoundHalfEven(n, d) ==
    LET q == n \div d
        rem == n % d
    IN  IF 2 * rem < d THEN q
        ELSE IF 2 * rem > d THEN q + 1
        ELSE IF q % 2 = 0 THEN q ELSE q + 1

\* the exponent e >= 0 of n / d: the least e with n / d < 2^(Precision + e)
RECURSIVE ExpOf(_, _, _)
ExpOf(n, d, e) ==
    IF n < d * Pow2(Precision + e) THEN e ELSE ExpOf(n, d, e + 1)

\* the float nearest to sign * n / d (n >= 0, d > 0), overflowing to infinity
RoundToData(sign, n, d) ==
    LET e == ExpOf(n, d, 0)
        m == RoundHalfEven(n, d * Pow2(e))
        v == m * Pow2(e)
    IN  IF v > MaxFinite THEN (IF sign < 0 THEN NInf ELSE PInf)
        ELSE sign * v

\* a * b
FMul(a, b) ==
    IF IsNaN(a) \/ IsNaN(b) THEN NaN
    ELSE IF IsInf(a) \/ IsInf(b)
         THEN IF a = 0 \/ b = 0 THEN NaN
              ELSE IF Sgn(a) * Sgn(b) < 0 THEN NInf ELSE PInf
    ELSE RoundToData(Sgn(a) * Sgn(b), Abs(a) * Abs(b), Unit)

\* a - b
FSub(a, b) ==
    IF IsNaN(a) \/ IsNaN(b) THEN NaN
    ELSE IF IsInf(a) /\ IsInf(b) THEN (IF a = b THEN NaN ELSE a)
    ELSE IF IsInf(a) THEN a
    ELSE IF IsInf(b) THEN -b
    ELSE RoundToData(Sgn(a - b), Abs(a - b), 1)

\* a > b and a < b: false when either operand is NaN
FGt(a, b) == ~IsNaN(a) /\ ~IsNaN(b) /\ a > b
FLt(a, b) == ~IsNaN(a) /\ ~IsNaN(b) /\ a < b

(***************************************************************************)
(* State.                                                                  *)
(***************************************************************************)
VARIABLES
    insts,   \* handle -> lmng_state (live: allocated and not deleted)
    mem,     \* host memory: address -> LADSPA_Data
    fault,   \* the process died on an invalid memory access
    last,    \* the most recent host call, its arguments and what it returned
    first,   \* the first run that directly followed an activate, as observed
    budget   \* host calls the behaviour may still make

vars == <<insts, mem, fault, last, first, budget>>

Handles == 1..MaxInstances

\* host memory: one cell each for two control values, then an audio buffer
\* long enough for a block of INT_MAX + 2 samples
BufLen == INT_MAX + 2
MemSize == 2 + BufLen
Addr == 1..MemSize

\* descriptor pointers
PluginDesc == "&plugin"
ForeignDesc == "&foreign"
NullDesc == "NULL"

\* new lmng_state(): value-initialisation zeroes every member
FreshState == [live |-> TRUE, r |-> NULL, seed |-> NULL, outbuf |-> NULL,
               current |-> Zero]
\* a handle slot holding no instance
NoState == [live |-> FALSE, r |-> NULL, seed |-> NULL, outbuf |-> NULL,
            current |-> Zero]

\* a host call as observed: the entry point, the handle passed or returned,
\* the descriptor passed or returned, the integer argument, the pointer
\* argument (for run: outbuf on entry), and for run the value of current on
\* entry, the values at the r and seed locations on entry, whether the call
\* directly followed an activate of the same instance, and the number of
\* samples written
NoCall == [op |-> "none", h |-> NULL, desc |-> NullDesc, arg |-> 0,
           loc |-> NULL, cur0 |-> Zero, rin |-> Zero, seedin |-> Zero,
           act |-> FALSE, written |-> 0]

\* the first run that directly followed an activate: the seed and rate
\* values it started from, its sampleCount, the samples it wrote, and the
\* number of samples written by the runs after it
NoFirst == [valid |-> FALSE, s |-> Zero, r |-> Zero, n |-> 0, out |-> <<>>,
            more |-> 0]

\* the n samples found at location loc of memory m
Samples(m, loc, n) == [k \in 1..n |-> m[loc + k - 1]]


(***************************************************************************)
(* The plugin's entry points, each called by the host.                     *)
(***************************************************************************)
\* one more host call
Tick == budget > 0 /\ budget' = budget - 1

\* a variant: the index test off by one, if (Index > 1)
ladspa_descriptor_gt1(Index) == IF Index > 1 THEN NullDesc ELSE PluginDesc

\* const LADSPA_Descriptor * ladspa_descriptor(unsigned long Index)
ladspa_descriptor(Index) == IF Index > 0 THEN NullDesc ELSE PluginDesc

Descriptor(Index) ==
    /\ Tick
    /\ ~fault
    /\ last' = [NoCall EXCEPT !.op = "descriptor", !.arg = Index,
                              !.desc = ladspa_descriptor(Index)]
    /\ UNCHANGED <<insts, mem, fault, first>>

\* a variant: the descriptor test left out
lmng_new_unchecked(desc) == FALSE

\* if (desc != &plugin) { return NULL; }
lmng_new_fails(desc) == desc # PluginDesc

\* LADSPA_Handle lmng_new(desc, samplerate): NULL for a foreign descriptor,
\* else a new lmng_state() at an address h that holds no instance
New(desc, samplerate, h) ==
    /\ Tick
    /\ ~fault
    /\ IF lmng_new_fails(desc)
       THEN /\ last' = [NoCall EXCEPT !.op = "new", !.desc = desc,
                                      !.arg = samplerate, !.h = NULL]
            /\ UNCHANGED insts
       ELSE /\ ~insts[h].live
            /\ insts' = [insts EXCEPT ![h] = FreshState]
            /\ last' = [NoCall EXCEPT !.op = "new", !.desc = desc,
                                      !.arg = samplerate, !.h = h]
    /\ UNCHANGED <<mem, fault, first>>

\* void lmng_delete(instance)
Delete(h) ==
    /\ Tick
    /\ ~fault
    /\ insts[h].live
    /\ insts' = [insts EXCEPT ![h] = NoState]
    /\ last' = [NoCall EXCEPT !.op = "delete", !.h = h]
    /\ UNCHANGED <<mem, fault, first>>

\* a variant: the break statements left out, so each case falls through
lmng_connect_fallthrough(inst, port, location) ==
    IF port = PORT_R
    THEN [inst EXCEPT !.r = location, !.seed = location, !.outbuf = location]
    ELSE IF port = PORT_SEED
    THEN [inst EXCEPT !.seed = location, !.outbuf = location]
    ELSE IF port = PORT_OUT THEN [inst EXCEPT !.outbuf = location]
    ELSE inst

\* the switch of lmng_connect: three cases, no default
lmng_connect(inst, port, location) ==
    IF port = PORT_R THEN [inst EXCEPT !.r = location]
    ELSE IF port = PORT_SEED THEN [inst EXCEPT !.seed = location]
    ELSE IF port = PORT_OUT THEN [inst EXCEPT !.outbuf = location]
    ELSE inst

\* void lmng_connect(instance, port, location)
Connect(h, port, location) ==
    /\ Tick
    /\ ~fault
    /\ insts[h].live
    /\ insts' = [insts EXCEPT ![h] = lmng_connect(insts[h], port, location)]
    /\ last' = [NoCall EXCEPT !.op = "connect", !.h = h, !.arg = port,
                              !.loc = location]
    /\ UNCHANGED <<mem, fault, first>>

\* the host stores a value in memory it owns (a control value, a buffer cell)
HostWrite(a, v) ==
    /\ Tick
    /\ ~fault
    /\ mem' = [mem EXCEPT ![a] = v]
    /\ last' = [NoCall EXCEPT !.op = "write", !.loc = a]
    /\ UNCHANGED <<insts, fault, first>>

\* a variant: the seed is copied only into an instance that has not run yet
lmng_activate_once(inst, m) ==
    IF inst.current = Zero THEN [inst EXCEPT !.current = m[inst.seed]]
    ELSE inst

\* inst->current = *(inst->seed);
lmng_activate(inst, m) == [inst EXCEPT !.current = m[inst.seed]]

\* void lmng_activate(instance); reading through a null seed pointer is
\* an invalid access that kills the process
Activate(h) ==
    /\ Tick
    /\ ~fault
    /\ insts[h].live
    /\ last' = [NoCall EXCEPT !.op = "activate", !.h = h]
    /\ IF insts[h].seed = NULL
       THEN fault' = TRUE /\ UNCHANGED insts
       ELSE /\ insts' = [insts EXCEPT ![h] = lmng_activate(insts[h], mem)]
            /\ UNCHANGED fault
    /\ UNCHANGED <<mem, first>>

\* a variant: only the lower clamp
Clamp_low_only(r) == IF FLt(r, Zero) THEN Zero ELSE r

\* if (r > 4.0f) { r = 4.0f; }  if (r < 0.0f) { r = 0.0f; }
Clamp(r) ==
    LET r1 == IF FGt(r, Four) THEN Four ELSE r
    IN  IF FLt(r1, Zero) THEN Zero ELSE r1

\* a variant: r * current * (1 + current)
LogisticStep_plus(r, current) ==
    FMul(FMul(r, current), FSub(One, FSub(Zero, current)))

\* r * inst->current * (1 - inst->current), evaluated left to right in float
LogisticStep(r, current) == FMul(FMul(r, current), FSub(One, current))

\* a variant: i <= sampleCount
LoopCond_inclusive(i, sampleCount) ==
    (IF i < 0 THEN ToULong(i) ELSE i) <= sampleCount

\* i < sampleCount: the int i is converted to unsigned long
LoopCond(i, sampleCount) ==
    (IF i < 0 THEN ToULong(i) ELSE i) < sampleCount

\* ++i on the int i: at INT_MAX the increment overflows, which is undefined;
\* a build either wraps to INT_MIN or keeps counting in a wider register
Increment(i, wraps) ==
    IF i = INT_MAX /\ wraps THEN INT_MIN ELSE i + 1

\* a variant: the map applied before the sample is stored
LoopBody_map_first(st, r, outbuf) ==
    LET next == LogisticStep(r, st.current)
    IN  [st EXCEPT !.mem = [st.mem EXCEPT ![outbuf + st.i] = next],
                   !.current = next,
                   !.written = st.written + 1]

\* the loop body:  inst->outbuf[i] = inst->current;  then the map
LoopBody(st, r, outbuf) ==
    [st EXCEPT !.mem = [st.mem EXCEPT ![outbuf + st.i] = st.current],
               !.current = LogisticStep(r, st.current),
               !.written = st.written + 1]

\* for (int i = 0; i < sampleCount; ++i) { ... }  on the loop state
\* st = [i, mem, current, written, fault]; a store through a null outbuf
\* or outside the host's memory is an invalid access that kills the process
RECURSIVE RunLoop(_, _, _, _, _)
RunLoop(st, r, outbuf, sampleCount, wraps) ==
    IF ~LoopCond(st.i, sampleCount) THEN st
    ELSE IF outbuf = NULL \/ (outbuf + st.i) \notin Addr
         THEN [st EXCEPT !.fault = TRUE]
    ELSE RunLoop([LoopBody(st, r, outbuf) EXCEPT
                      !.i = Increment(st.i, wraps)],
                 r, outbuf, sampleCount, wraps)

\* the body of lmng_run: r is read and clamped once, then the loop runs
lmng_run(inst, m, sampleCount, wraps) ==
    RunLoop([i |-> 0, mem |-> m, current |-> inst.current, written |-> 0,
             fault |-> FALSE],
            Clamp(m[inst.r]), inst.outbuf, sampleCount, wraps)

\* void lmng_run(instance, sampleCount); reading through a null r pointer
\* is an invalid access that kills the process
Run(h, sampleCount, wraps) ==
    /\ Tick
    /\ ~fault
    /\ insts[h].live
    /\ IF insts[h].r = NULL
       THEN /\ fault' = TRUE
            /\ last' = [NoCall EXCEPT !.op = "run", !.h = h,
                                      !.arg = sampleCount]
            /\ UNCHANGED <<insts, mem, first>>
       ELSE LET res == lmng_run(insts[h], mem, sampleCount, wraps)
                act == last.op = "activate" /\ last.h = h
                seedin == IF insts[h].seed = NULL THEN Zero
                          ELSE mem[insts[h].seed]
            IN  /\ mem' = res.mem
                /\ insts' = [insts EXCEPT ![h].current = res.current]
                /\ fault' = res.fault
                /\ last' = [NoCall EXCEPT
                              !.op = "run", !.h = h, !.arg = sampleCount,
                              !.loc = insts[h].outbuf,
                              !.cur0 = insts[h].current,
                              !.rin = mem[insts[h].r],
                              !.seedin = seedin,
                              !.act = act,
                              !.written = res.written]
                /\ first' = IF first.valid
                            THEN [first EXCEPT
                                    !.more = first.more + res.written]
                            ELSE IF act /\ ~res.fault
                            THEN [valid |-> TRUE, s |-> seedin,
                                  r |-> mem[insts[h].r], n |-> sampleCount,
                                  out |-> Samples(res.mem, insts[h].outbuf,
                                                  res.written),
                                  more |-> 0]
                            ELSE first

(***************************************************************************)
(* What the host does.                                                     *)
(***************************************************************************)
Half == Unit \div 2
Quarter == Unit \div 4
Ten == 10 * Unit
MinusFive == -5 * Unit

\* the host's memory: the r control value at 1, the seed control value at 2,
\* an audio buffer of BufLen samples from 3
RCell == NULL + 1
SeedCell == RCell + 1
BufStart == SeedCell + 1

HostMem(rv, sv) ==
    [a \in Addr |-> IF a = RCell THEN rv ELSE IF a = SeedCell THEN sv ELSE Zero]

\* an instance connected the usual way
Wired == [FreshState EXCEPT !.r = RCell, !.seed = SeedCell,
                            !.outbuf = BufStart]
\* an instance whose output buffer starts at the r control value
Aliased == [FreshState EXCEPT !.r = RCell, !.seed = SeedCell,
                              !.outbuf = RCell]

OneInstance(st) == [h \in Handles |-> IF h = 1 THEN st ELSE NoState]

\* the lifecycle specification reaches both: new, then three connect calls
WiredReached == insts = OneInstance(Wired)
AliasedReached == insts = OneInstance(Aliased)

(***************************************************************************)
(* Lifecycle specification: the host discovers the plugin, creates and     *)
(* deletes instances, binds ports, stores control values, activates, runs. *)
(***************************************************************************)
HostLocs == {NULL, RCell, SeedCell, BufStart}
SampleRates == {44100, 48000}

Init ==
    /\ insts = [h \in Handles |-> NoState]
    /\ mem \in {HostMem(Four, Half), HostMem(Ten, Quarter)}
    /\ fault = FALSE
    /\ last = NoCall
    /\ first = NoFirst
    /\ budget = MaxCalls

Next ==
    \/ \E Index \in 0..2 : Descriptor(Index)
    \/ \E desc \in {PluginDesc, ForeignDesc}, sr \in SampleRates,
          h \in Handles : New(desc, sr, h)
    \/ \E h \in Handles : Delete(h)
    \/ \E h \in Handles, port \in 0..PORT_COUNT, loc \in HostLocs :
          Connect(h, port, loc)
    \/ \E a \in {RCell, SeedCell}, v \in {Half, MinusFive} : HostWrite(a, v)
    \/ \E h \in Handles : Activate(h)
    \/ \E h \in Handles, n \in 0..1, wraps \in BOOLEAN : Run(h, n, wraps)

Spec == Init /\ [][Next]_vars

(***************************************************************************)
(* Block specification: one connected instance; the host rebinds ports,    *)
(* activates, and runs blocks of up to BufLen samples, more than the int   *)
(* loop counter can count.                                                 *)
(***************************************************************************)
InitBlock ==
    /\ insts = OneInstance(Wired)
    /\ mem \in {HostMem(rv, sv) : rv \in {Four, Ten}, sv \in {Quarter}}
    /\ fault = FALSE
    /\ last = NoCall
    /\ first = NoFirst
    /\ budget = MaxBlockCalls

NextBlock ==
    \/ \E port \in 0..PORT_COUNT, loc \in HostLocs : Connect(1, port, loc)
    \/ Activate(1)
    \/ \E n \in 0..BufLen, wraps \in BOOLEAN : Run(1, n, wraps)

SpecBlock == InitBlock /\ [][NextBlock]_vars

(***************************************************************************)
(* Generation specification: one connected instance, the output buffer     *)
(* either apart from or on top of the control values; every kind of        *)
(* growth rate and seed; blocks the int loop counter can count.            *)
(***************************************************************************)
GenRates == {Zero, Half, 3 * Unit + Half, Four, Ten, MinusFive, NaN}
GenSeeds == {Zero, Quarter, Half, One, 2 * Unit, NaN}

InitGen ==
    /\ insts \in {OneInstance(Wired), OneInstance(Aliased)}
    /\ mem \in {HostMem(rv, sv) : rv \in GenRates, sv \in GenSeeds}
    /\ fault = FALSE
    /\ last = NoCall
    /\ first = NoFirst
    /\ budget = MaxGenCalls

NextGen ==
    \/ Activate(1)
    \/ \E n \in 0..MaxCount, wraps \in BOOLEAN : Run(1, n, wraps)

SpecGen == InitGen /\ [][NextGen]_vars

(***************************************************************************)
(* Closure specification: every growth rate in [0, 4] and every seed in    *)
(* [0, 1] that LADSPA_Data can hold.                                       *)
(***************************************************************************)
UnitInterval == {v \in Finite : Zero <= v /\ v <= One}
RateInterval == {v \in Finite : Zero <= v /\ v <= Four}

InitUnit ==
    /\ insts = OneInstance(Wired)
    /\ mem \in {HostMem(rv, sv) : rv \in RateInterval, sv \in UnitInterval}
    /\ fault = FALSE
    /\ last = NoCall
    /\ first = NoFirst
    /\ budget = MaxUnitCalls

NextUnit ==
    \/ Activate(1)
    \/ \E n \in 0..MaxCount, wraps \in BOOLEAN : Run(1, n, wraps)

SpecUnit == InitUnit /\ [][NextUnit]_vars

(***************************************************************************)
(* Properties.                                                             *)
(***************************************************************************)
\* f(x) = r * x * (1 - x) in LADSPA_Data arithmetic, and its i-th iterate
F(r, x) == FMul(FMul(r, x), FSub(One, x))

RECURSIVE Iter(_, _, _)
Iter(r, x, i) == IF i = 0 THEN x ELSE F(r, Iter(r, x, i - 1))

\* v limited to [0, 4]
ClampedRate(v) ==
    IF FGt(v, Four) THEN Four ELSE IF FLt(v, Zero) THEN Zero ELSE v

\* the last call was a run of instance h that completed
RanOk == last.op = "run" /\ ~fault

\* sample i of the block the last run wrote
Out(i) == mem[last.loc + i]

\* C1: activate followed by run(n), with seed value s and clamped growth
\* rate r, writes out[i] = f^i(s) for every 0 <= i < n (so out[0] = s, the
\* seed itself) and leaves current = f^n(s).
C1_RunWritesIterates ==
    (RanOk /\ last.act) =>
        LET r == Clamp(last.rin)
            s == last.seedin
            n == last.arg
        IN  /\ last.written = n
            /\ \A i \in 0..(n - 1) : Out(i) = Iter(r, s, i)
            /\ insts[last.h].current = Iter(r, s, n)

\* a run right after activate that wrote MaxCount different samples
C1_Witness ==
    /\ RanOk /\ last.act
    /\ last.arg = MaxCount /\ last.written = MaxCount
    /\ last.seedin = Quarter /\ last.rin = 3 * Unit + Half
    /\ Out(0) = Quarter /\ Out(1) # Out(0)
    /\ insts[last.h].current # Out(1)

\* C2 as stated: after activate with seed 0 or seed 1, every sample run
\* writes equals the seed, for any growth rate and any sample count.
C2_SeedZeroOneConstant ==
    (RanOk /\ last.act /\ last.seedin \in {Zero, One}) =>
        \A i \in 0..(last.written - 1) : Out(i) = last.seedin

\* C2 amended: for a growth rate that is not NaN, seed 0 gives only zeros
\* and leaves current 0; seed 1 gives 1 as the first sample and 0 for every
\* later one, and leaves current 0 once a sample was written.
C2_SeedZeroOneSilence ==
    (RanOk /\ last.act /\ ~IsNaN(last.rin)) =>
        /\ last.seedin = Zero =>
              /\ \A i \in 0..(last.arg - 1) : Out(i) = Zero
              /\ insts[last.h].current = Zero
        /\ last.seedin = One =>
              /\ \A i \in 0..(last.arg - 1) :
                    Out(i) = IF i = 0 THEN One ELSE Zero
              /\ last.arg > 0 => insts[last.h].current = Zero

\* seed 1, growth rate 4, two samples: 1 then 0
C2_Witness ==
    /\ RanOk /\ last.act
    /\ last.seedin = One /\ last.rin = Four /\ last.arg >= 2
    /\ Out(0) = One /\ Out(1) = Zero

\* C3: the growth rate of every sample of a run is the value at the r
\* location when the call starts, limited to [0, 4]: 10 acts as 4, -5 as 0,
\* and a change of the value at the r location during the call (the output
\* buffer lying on it) does not change the rate of the later samples.
C3_RateReadOnceAndClamped ==
    RanOk =>
        LET r == ClampedRate(last.rin)
            n == last.arg
        IN  /\ \A i \in 0..(n - 1) : Out(i) = Iter(r, last.cur0, i)
            /\ insts[last.h].current = Iter(r, last.cur0, n)

\* a run that read r = 10 and whose first sample overwrote the r location
C3_Witness ==
    /\ RanOk
    /\ last.rin = Ten /\ last.loc = insts[last.h].r /\ last.arg >= 2
    /\ mem[insts[last.h].r] # Ten
    /\ last.cur0 = Quarter
    /\ Out(1) = Iter(Four, Quarter, 1) /\ Out(1) # Iter(Quarter, Quarter, 1)

\* C4: for every growth rate in [0, 4] and every seed in [0, 1], after
\* activate and any run calls, current and every sample written lie in
\* [0, 1].
C4_Closure ==
    /\ insts[1].current \in UnitInterval
    /\ \A a \in BufStart..MemSize : mem[a] \in UnitInterval

\* growth rate 4 applied to a seed other than 1/2 reaches exactly 1
C4_Witness ==
    /\ RanOk /\ last.act /\ last.rin = Four
    /\ last.seedin # Half /\ last.arg >= 2
    /\ Out(1) = One

\* C5: activate; run(N); any further calls; activate; run(N), the seed and r
\* values being the same at both activations, write the same N samples.
C5_ReactivateRepeats ==
    (RanOk /\ last.act /\ first.valid /\ last.seedin = first.s
        /\ last.rin = first.r /\ last.arg = first.n) =>
        Samples(mem, last.loc, last.written) = first.out

\* a second activate and run(N) after the first run(N) and a further run
\* that generated samples
C5_Witness ==
    /\ RanOk /\ last.act /\ first.valid
    /\ first.more > last.written
    /\ last.seedin = first.s /\ last.rin = first.r /\ last.arg = first.n
    /\ last.arg >= 2 /\ last.seedin = Quarter /\ last.rin = Four
    /\ Out(1) # Out(0)

\* C6: run with sampleCount = 0 writes nothing to memory and leaves current
\* and the three port bindings unchanged.
C6_RunZeroIsNoOp ==
    [][(last'.op = "run" /\ last'.arg = 0) =>
          (mem' = mem /\ insts' = insts)]_vars

\* run(0) completed on a connected, activated instance whose current a map
\* step would change
C6_Witness ==
    /\ RanOk /\ last.arg = 0 /\ last.act
    /\ insts[last.h].r # NULL /\ insts[last.h].seed # NULL
    /\ insts[last.h].outbuf # NULL
    /\ insts[last.h].current = Quarter

\* C7 as stated, for a call the host makes correctly (r and outbuf bound,
\* the buffer holding sampleCount samples): run writes exactly sampleCount
\* samples and does not fail, also when sampleCount exceeds INT_MAX.
C7_RunWritesSampleCount ==
    (last.op = "run" /\ insts[last.h].r # NULL /\ last.loc # NULL
        /\ last.loc + last.arg - 1 <= MemSize) =>
        (~fault /\ last.written = last.arg)

\* C8: instantiate returns NULL and creates nothing for a descriptor that
\* is not the plugin's own; otherwise it returns a new instance with all
\* three ports unbound, whatever the sample rate and the other instances.
C8_InstantiateChecksDescriptor ==
    [][last'.op = "new" =>
          IF last'.desc # PluginDesc
          THEN last'.h = NULL /\ insts' = insts /\ mem' = mem
          ELSE /\ last'.h \in Handles
               /\ ~insts[last'.h].live
               /\ insts'[last'.h].live
               /\ insts'[last'.h].r = NULL
               /\ insts'[last'.h].seed = NULL
               /\ insts'[last'.h].outbuf = NULL
               /\ \A g \in Handles \ {last'.h} : insts'[g] = insts[g]
               /\ mem' = mem]_vars

\* an instance created while another instance with a bound port exists
C8_Witness ==
    /\ last.op = "new" /\ last.desc = PluginDesc /\ last.h # NULL
    /\ insts[last.h].live
    /\ \E g \in Handles \ {last.h} : insts[g].live /\ insts[g].seed # NULL

\* C9: a connect call with port index 0, 1 or 2 sets that port's binding to
\* the location given and any other index sets none; it changes no other
\* binding, not current, no other instance, no memory; activate and run
\* change no binding, and they use the bindings as the connect calls left
\* them: activate reads the seed location, run reads the r location and
\* writes from the outbuf location.
C9_ConnectBindsPort ==
    [][/\ last'.op = "connect" =>
            LET h == last'.h
                p == last'.arg
            IN  /\ insts'[h].r = IF p = 0 THEN last'.loc ELSE insts[h].r
                /\ insts'[h].seed = IF p = 1 THEN last'.loc ELSE insts[h].seed
                /\ insts'[h].outbuf =
                       IF p = 2 THEN last'.loc ELSE insts[h].outbuf
                /\ insts'[h].current = insts[h].current
                /\ insts'[h].live
                /\ \A g \in Handles \ {h} : insts'[g] = insts[g]
                /\ mem' = mem
       /\ last'.op \in {"activate", "run"} =>
            LET h == last'.h
            IN  /\ insts'[h].r = insts[h].r
                /\ insts'[h].seed = insts[h].seed
                /\ insts'[h].outbuf = insts[h].outbuf
       /\ (last'.op = "activate" /\ ~fault') =>
            insts'[last'.h].current = mem[insts[last'.h].seed]
       /\ (last'.op = "run" /\ ~fault') =>
            LET h == last'.h
                n == last'.arg
                r == ClampedRate(mem[insts[h].r])
            IN  /\ \A i \in 0..(last'.written - 1) :
                      mem'[insts[h].outbuf + i] = Iter(r, insts[h].current, i)
                /\ \A a \in Addr :
                      mem'[a] # mem[a] =>
                          a \in insts[h].outbuf..(insts[h].outbuf + n - 1)
      ]_vars

\* the r port was rebound to the seed location and the next run used the
\* value there as its growth rate
C9_Witness ==
    /\ RanOk /\ last.arg >= 2 /\ last.written >= 2
    /\ insts[last.h].r = SeedCell /\ insts[last.h].outbuf = BufStart
    /\ mem[SeedCell] # mem[RCell]
    /\ last.rin = mem[SeedCell]
    /\ last.cur0 # Zero
    /\ Out(1) = Iter(ClampedRate(mem[SeedCell]), last.cur0, 1)
    /\ Out(1) # Iter(ClampedRate(mem[RCell]), last.cur0, 1)

\* C10: ladspa_descriptor(0) returns the plugin's descriptor and
\* ladspa_descriptor(i) returns NULL for every i >= 1, in every state, and
\* the call changes no instance and no memory.
C10_DiscoveryStateless ==
    [][last'.op = "descriptor" =>
          /\ last'.desc = (IF last'.arg = 0 THEN PluginDesc ELSE NullDesc)
          /\ insts' = insts /\ mem' = mem /\ fault' = fault]_vars

\* discovery with index 1 while an instance with a bound port exists
C10_Witness ==
    /\ last.op = "descriptor" /\ last.arg = 1 /\ last.desc = NullDesc
    /\ \E h \in Handles : insts[h].live /\ insts[h].seed # NULL

====
